---- MODULE Spec2Model ----
(***************************************************************************)
(* Model of app.py (MISRA Smart Fixer): the startup code, and the pipeline *)
(* process_file -> run_cppcheck -> build_prompt -> predict_patch.          *)
(*                                                                         *)
(* An optional Python value is a sequence of length at most one: None is   *)
(* <<>> and a present value v is <<v>>.  A Python exception is a record     *)
(* [cls, msg].  A text made by "\n".join is the sequence of its pieces     *)
(* with the separator between them.                                         *)
(***************************************************************************)
EXTENDS Naturals, Sequences, FiniteSets, TLC

VARIABLES proc, wandbReady, toolInstalled, pc, calls, file_obj, filename, src,
          analyzer, issues, prompt, llmCalls, inference, trace, fault,
          result, tmpFiles

vars == <<proc, wandbReady, toolInstalled, pc, calls, file_obj, filename, src,
          analyzer, issues, prompt, llmCalls, inference, trace, fault,
          result, tmpFiles>>

(* ------------------------------ bounds --------------------------------- *)

\* longest analyzer report (number of error elements) the model enumerates
MaxErrors == 2

\* number of process_file calls of one behaviour
MaxCalls == 2

(* --------------------------- Python values ----------------------------- *)

None == <<>>

Some(v) == <<v>>

\* str(v) as an f-string renders it: None is rendered as the text "None"
Format(v) == IF v = None THEN "None" ELSE v[1]

Exc(cls, msg) == [cls |-> cls, msg |-> msg]

\* a handler that names too few classes, as `except RuntimeError` would
ExceptionClasses_narrow ==
    {"OSError", "FileNotFoundError", "UnicodeDecodeError", "RuntimeError"}

\* the classes that `except Exception` catches; SystemExit is not one of them
ExceptionClasses ==
    {"OSError", "FileNotFoundError", "UnicodeDecodeError", "AttributeError",
     "RuntimeError", "IndexError", "Error", "CalledProcessError", "ParseError"}

\* str.endswith on a text given as the sequence of its characters
EndsWith(s, suffix) ==
    /\ Len(s) >= Len(suffix)
    /\ SubSeq(s, Len(s) - Len(suffix) + 1, Len(s)) = suffix

DotC == <<".", "c">>

\* sep.join(parts): the parts with the separator between consecutive ones
RECURSIVE Join(_, _)
Join(sep, parts) ==
    IF parts = <<>> THEN <<>>
    ELSE IF Len(parts) = 1 THEN <<parts[1]>>
    ELSE <<parts[1], sep>> \o Join(sep, Tail(parts))

(* ------------------------------ inputs --------------------------------- *)

\* names of uploaded files, as character sequences
FileNames == {<<"a", ".", "c">>, <<"a", ".", "c", "p", "p">>}

StrName(chars) == [type |-> "str", value |-> chars]

\* a file-like object whose .name is not a str (a descriptor number)
FdName == [type |-> "int", value |-> <<>>]

Contents == {"", "int x;"}

\* what reading the upload gives: its text, or the exception the read raises
ReadOutcomes ==
    {[exc |-> None, data |-> c] : c \in Contents}
      \cup {[exc |-> Some(Exc("UnicodeDecodeError", "invalid start byte")), data |-> ""]}

\* the values Gradio hands to process_file: None, or an object with a .name
FileObjs ==
    {None} \cup
    {Some([name |-> n, read |-> r]) :
        n \in {StrName(f) : f \in FileNames} \cup {FdName}, r \in ReadOutcomes}

Loc(file, line, column) == [file |-> file, line |-> line, column |-> column]

Element(severity, id, msg, locations) ==
    [severity |-> severity, id |-> id, msg |-> msg, verbose |-> msg,
     locations |-> locations]

\* <error> elements of a report: with one location, without location, with two
\* locations, and with a location but with attributes missing
ErrorElements ==
    { Element(Some("style"), Some("misra-c2012-8.4"), Some("no previous declaration"),
              <<Loc(Some("a.c"), Some("1"), Some("1"))>>),
      Element(Some("information"), Some("missingInclude"), Some("include not found"),
              <<>>),
      Element(Some("error"), Some("nullPointer"), Some("null dereference"),
              <<Loc(Some("a.c"), Some("7"), Some("3")), Loc(Some("a.c"), Some("5"), Some("9"))>>),
      Element(None, Some("misra-c2012-2.7"), Some("unused parameter"),
              <<Loc(Some("a.c"), Some("2"), None)>>) }

RECURSIVE SeqsUpTo(_, _)
SeqsUpTo(S, n) ==
    IF n = 0 THEN {<<>>}
    ELSE LET shorter == SeqsUpTo(S, n - 1)
         IN  shorter \cup {Append(s, e) : s \in {t \in shorter : Len(t) = n - 1}, e \in S}

\* the text cppcheck wrote to stderr: the <error> elements it holds and
\* whether the document is well-formed XML (a truncated document is not)
XmlDocs ==
    {[wellformed |-> w, errors |-> es] : w \in BOOLEAN, es \in SeqsUpTo(ErrorElements, MaxErrors)}

\* outcomes of subprocess.run(cmd, ..., stderr=xml_file): the launch raises, or
\* the process ran to its exit code and left its report in xml_file
RunOutcomes ==
    {[exc |-> Some(Exc("OSError", "Exec format error")), returncode |-> 0,
      xml |-> [wellformed |-> FALSE, errors |-> <<>>]]}
      \cup {[exc |-> None, returncode |-> rc, xml |-> d] : rc \in {0, 1}, d \in XmlDocs}

\* what llm(prompt, max_tokens=512, stop=["[INST]"], echo=False) does: it
\* raises, or returns a response holding zero or one completion
LlmOutcomes ==
    {[exc |-> Some(Exc("RuntimeError", "llama_decode returned 1")), choices |-> <<>>],
     [exc |-> None, choices |-> <<>>],
     [exc |-> None, choices |-> <<[text |-> ""]>>],
     [exc |-> None, choices |-> <<[text |-> "--- a.c\n+++ a.c"]>>]}

(* ---------------------------- run_cppcheck ----------------------------- *)

\* ensure_tool(name): TRUE when it returns, FALSE when it calls sys.exit(1)
ensure_tool(installed) == installed

\* the two NamedTemporaryFile(delete=False) of one call, named by the call
NamedTemporaryFiles(callNo) == {<<callNo, ".c">>, <<callNo, ".xml">>}

\* the files that are left when the `with` block is left: closing a
\* NamedTemporaryFile unlinks it only when it was made with delete=True
CloseTemporaryFiles(files, delete) == IF delete THEN {} ELSE files

lang_args(fname) ==
    IF EndsWith(fname, DotC)
    THEN <<"--std=c99", "--language=c", "--addon=misra">>
    ELSE <<"--std=c++17", "--language=c++", "--profile=misra-cpp-2012">>

\* the classes named by the except clause of run_cppcheck
CaughtByRunCppcheck == {"CalledProcessError", "ParseError"}

\* ET.parse(xml_file): the <error> elements of the document, or ParseError
ET_parse(xml) ==
    IF xml.wellformed
    THEN [exc |-> None, errors |-> xml.errors]
    ELSE [exc |-> Some(Exc("ParseError", "no element found")), errors |-> <<>>]

Issue(error_element, location) ==
    [severity |-> error_element.severity,
     id       |-> error_element.id,
     msg      |-> error_element.msg,
     verbose  |-> error_element.verbose,
     file     |-> location.file,
     line     |-> location.line,
     column   |-> location.column]

\* the loop building the list from the front (issues.insert(0, issue))
RECURSIVE ExtractIssues_reversed(_)
ExtractIssues_reversed(errors) ==
    IF errors = <<>> THEN <<>>
    ELSE LET error_element == Head(errors)
         IN  IF error_element.locations # <<>>
             THEN ExtractIssues_reversed(Tail(errors))
                      \o <<Issue(error_element, error_element.locations[1])>>
             ELSE ExtractIssues_reversed(Tail(errors))

\* the loop over root.findall(".//error"): an element with a location
\* sub-element gives one issue, located at its first location
RECURSIVE ExtractIssues(_)
ExtractIssues(errors) ==
    IF errors = <<>> THEN <<>>
    ELSE LET error_element == Head(errors)
         IN  IF error_element.locations # <<>>
             THEN <<Issue(error_element, error_element.locations[1])>>
                      \o ExtractIssues(Tail(errors))
             ELSE ExtractIssues(Tail(errors))

\* launched: subprocess.run was reached (lang_args is then non-empty)
CppcheckResult(kind, exc, found, args, files) ==
    [kind |-> kind, exc |-> exc, issues |-> found, lang_args |-> args,
     launched |-> args # <<>>, files |-> files]

\* run_cppcheck with an incremental parser: the elements read before the
\* syntax error are extracted and returned
run_cppcheck_partial(fname, installed, run, callNo) ==
    IF ~ensure_tool(installed)
    THEN CppcheckResult("exit", Some(Exc("SystemExit", "1")), <<>>, <<>>, {})
    ELSE
      LET left == CloseTemporaryFiles(NamedTemporaryFiles(callNo), FALSE) IN
      IF fname.type # "str"
      THEN CppcheckResult("raise",
                          Some(Exc("AttributeError", "object has no attribute 'endswith'")),
                          <<>>, <<>>, left)
      ELSE
        LET args == lang_args(fname.value) IN
        IF run.exc # None
        THEN CppcheckResult("raise", run.exc, <<>>, args, left)
        ELSE CppcheckResult("return", None, ExtractIssues(run.xml.errors), args, left)

\* run_cppcheck(source_code, filename): kind "return" with the issues, "raise"
\* with the exception that leaves it, or "exit" when ensure_tool ends the process
run_cppcheck(fname, installed, run, callNo) ==
    IF ~ensure_tool(installed)
    THEN CppcheckResult("exit", Some(Exc("SystemExit", "1")), <<>>, <<>>, {})
    ELSE
      LET left == CloseTemporaryFiles(NamedTemporaryFiles(callNo), FALSE) IN
      IF fname.type # "str"
      THEN CppcheckResult("raise",
                          Some(Exc("AttributeError", "object has no attribute 'endswith'")),
                          <<>>, <<>>, left)
      ELSE
        LET args == lang_args(fname.value) IN
        IF run.exc # None
        THEN IF run.exc[1].cls \in CaughtByRunCppcheck
             THEN CppcheckResult("return", None, <<>>, args, left)
             ELSE CppcheckResult("raise", run.exc, <<>>, args, left)
        ELSE
          LET tree == ET_parse(run.xml) IN
          IF tree.exc # None
          THEN IF tree.exc[1].cls \in CaughtByRunCppcheck
               THEN CppcheckResult("return", None, <<>>, args, left)
               ELSE CppcheckResult("raise", tree.exc, <<>>, args, left)
          ELSE CppcheckResult("return", None, ExtractIssues(tree.errors), args, left)

(* ---------------------------- build_prompt ----------------------------- *)

\* one line of the summary, as the f-string of build_prompt renders it
SummaryLine(issue) ==
    "- " \o Format(issue.file) \o ":" \o Format(issue.line) \o ":"
      \o Format(issue.column) \o " " \o Format(issue.severity) \o ": "
      \o Format(issue.msg) \o " (" \o Format(issue.id) \o ")"

Summary(found) == Join("\n", [i \in 1..Len(found) |-> SummaryLine(found[i])])

rule_set(fname) == IF EndsWith(fname, DotC) THEN "MISRA C:2012" ELSE "MISRA C++:2012"

\* build_prompt without its `if not issues` guard
build_prompt_unguarded(source_code, fname, found) ==
    Some([expert      |-> IF rule_set(fname) = "MISRA C:2012"
                          THEN "C expert" ELSE "C++ expert",
          rule_set    |-> rule_set(fname),
          source_code |-> source_code,
          summary     |-> Summary(found)])

\* build_prompt with its first two arguments taken in the wrong order
build_prompt_swapped(source_code, fname, found) ==
    IF found = <<>> THEN None
    ELSE Some([expert      |-> IF rule_set(fname) = "MISRA C:2012"
                               THEN "C expert" ELSE "C++ expert",
               rule_set    |-> rule_set(fname),
               source_code |-> "a.c",
               summary     |-> Summary(found)])

\* build_prompt(source_code, filename, issues): None when there are no issues,
\* else the template with its interpolated parts
build_prompt(source_code, fname, found) ==
    IF found = <<>> THEN None
    ELSE Some([expert      |-> IF rule_set(fname) = "MISRA C:2012"
                               THEN "C expert" ELSE "C++ expert",
               rule_set    |-> rule_set(fname),
               source_code |-> source_code,
               summary     |-> Summary(found)])

(* ---------------------------- predict_patch ---------------------------- *)

\* predict_patch(prompt): the patch, or the exception it logs and re-raises;
\* the llm call, response["choices"][0]["text"] and wandb.log may each raise
predict_patch(llm, logRaises) ==
    IF llm.exc # None
    THEN [exc |-> llm.exc, patch |-> None]
    ELSE IF llm.choices = <<>>
    THEN [exc |-> Some(Exc("IndexError", "list index out of range")), patch |-> None]
    ELSE IF logRaises
    THEN [exc |-> Some(Exc("Error", "You must call wandb.init() before wandb.log()")),
          patch |-> None]
    ELSE [exc |-> None, patch |-> Some(llm.choices[1].text)]

(* ----------------------------- the program ----------------------------- *)

\* the fixed status strings of process_file
NoFileStatus == "Error: No file uploaded."

EmptyFileStatus == "Error: The uploaded file appears to be empty."

NoViolationsStatus == "No MISRA violations found."

SuccessStatus == "Patch generated below:"

ReadFailedStatus(e) == "Failed to read file: " \o e.msg

InferenceFailedStatus(e) == "An error occurred during local model inference: " \o e.msg

\* `src is None` in place of `not src`
NotSrc_isNone(s) == FALSE

\* `not src`
NotSrc(s) == s = ""

\* the return of process_file when build_prompt gave no prompt (None: go on)
BuildReturn(p) == IF p = None THEN Some(<<NoViolationsStatus, None>>) ELSE None

\* a handler that returns an empty text in place of None
GenerateReturn_emptyPatch(r) ==
    IF r.exc = None THEN Some(<<SuccessStatus, r.patch>>)
    ELSE IF r.exc[1].cls \in ExceptionClasses
    THEN Some(<<InferenceFailedStatus(r.exc[1]), Some("")>>)
    ELSE None

\* the try block around predict_patch: the pair returned, or None when the
\* exception is not an Exception and leaves process_file
GenerateReturn(r) ==
    IF r.exc = None THEN Some(<<SuccessStatus, r.patch>>)
    ELSE IF r.exc[1].cls \in ExceptionClasses
    THEN Some(<<InferenceFailedStatus(r.exc[1]), None>>)
    ELSE None

Init ==
    /\ proc = "starting"
    /\ wandbReady = FALSE
    /\ toolInstalled \in BOOLEAN
    /\ pc = "idle"
    /\ calls = 0
    /\ file_obj = None
    /\ filename = None
    /\ src = None
    /\ analyzer = None
    /\ issues = None
    /\ prompt = None
    /\ llmCalls = <<>>
    /\ inference = None
    /\ trace = <<>>
    /\ fault = None
    /\ result = None
    /\ tmpFiles = {}

\* module level code and main(): wandb.init may fail (a warning only); a
\* missing model file or a failing model load ends the process; otherwise the
\* interface is launched.  The analyzer executable is not looked for here.
Startup(wandbOk, modelFileExists, loadOk) ==
    /\ proc = "starting"
    /\ wandbReady' = wandbOk
    /\ proc' = IF modelFileExists /\ loadOk THEN "serving" ELSE "exited"
    /\ UNCHANGED <<toolInstalled, pc, calls, file_obj, filename, src, analyzer,
                   issues, prompt, llmCalls, inference, trace, fault, result,
                   tmpFiles>>

\* process_file, from its entry to the call of run_cppcheck: the checks of
\* the upload and the read of its content
Validate(f) ==
    /\ proc = "serving"
    /\ pc \in {"idle", "returned", "raised"}
    /\ calls < MaxCalls
    /\ calls' = calls + 1
    /\ file_obj' = f
    /\ analyzer' = None
    /\ issues' = None
    /\ prompt' = None
    /\ llmCalls' = <<>>
    /\ inference' = None
    /\ trace' = <<>>
    /\ fault' = None
    /\ IF f = None
       THEN /\ result' = <<NoFileStatus, None>>
            /\ pc' = "returned"
            /\ filename' = None
            /\ src' = None
       ELSE /\ filename' = Some(f[1].name)
            /\ IF f[1].read.exc # None /\ f[1].read.exc[1].cls \in ExceptionClasses
               THEN /\ result' = <<ReadFailedStatus(f[1].read.exc[1]), None>>
                    /\ pc' = "returned"
                    /\ src' = None
               ELSE /\ src' = Some(f[1].read.data)
                    /\ IF NotSrc(f[1].read.data)
                       THEN /\ result' = <<EmptyFileStatus, None>>
                            /\ pc' = "returned"
                       ELSE /\ result' = None
                            /\ pc' = "analyze"
    /\ UNCHANGED <<proc, wandbReady, toolInstalled, tmpFiles>>

\* issues = run_cppcheck(src, filename): no handler surrounds the call, so
\* what run_cppcheck raises leaves process_file, and sys.exit ends the process
Analyze(run) ==
    /\ proc = "serving"
    /\ pc = "analyze"
    /\ LET r == run_cppcheck(filename[1], toolInstalled, run, calls) IN
       /\ trace' = Append(trace, "analyze")
       /\ tmpFiles' = tmpFiles \cup r.files
       /\ analyzer' = IF r.launched
                      THEN Some([run |-> run, lang_args |-> r.lang_args])
                      ELSE None
       /\ IF r.kind = "return"
          THEN /\ issues' = Some(r.issues)
               /\ pc' = "build"
               /\ UNCHANGED <<fault, proc>>
          ELSE IF r.kind = "raise"
          THEN /\ fault' = r.exc
               /\ pc' = "raised"
               /\ UNCHANGED <<issues, proc>>
          ELSE /\ fault' = r.exc
               /\ pc' = "exit"
               /\ proc' = "exited"
               /\ UNCHANGED issues
    /\ UNCHANGED <<wandbReady, toolInstalled, calls, file_obj, filename, src,
                   prompt, llmCalls, inference, result>>

\* prompt = build_prompt(src, filename, issues), and the return when it is None
Build ==
    /\ proc = "serving"
    /\ pc = "build"
    /\ trace' = Append(trace, "build")
    /\ LET p == build_prompt(src[1], filename[1].value, issues[1]) IN
       /\ prompt' = p
       /\ IF BuildReturn(p) # None
          THEN /\ result' = BuildReturn(p)[1]
               /\ pc' = "returned"
          ELSE /\ result' = None
               /\ pc' = "generate"
    /\ UNCHANGED <<proc, wandbReady, toolInstalled, calls, file_obj, filename,
                   src, analyzer, issues, llmCalls, inference, fault, tmpFiles>>

\* the try block of process_file around predict_patch(prompt)
Generate(llm, logRaises) ==
    /\ proc = "serving"
    /\ pc = "generate"
    /\ ~wandbReady => logRaises
    /\ trace' = Append(trace, "generate")
    /\ llmCalls' = Append(llmCalls, prompt[1])
    /\ LET r == predict_patch(llm, logRaises) IN
       /\ inference' = Some(r)
       /\ IF GenerateReturn(r) # None
          THEN /\ result' = GenerateReturn(r)[1]
               /\ pc' = "returned"
               /\ UNCHANGED fault
          ELSE /\ fault' = r.exc
               /\ pc' = "raised"
               /\ UNCHANGED result
    /\ UNCHANGED <<proc, wandbReady, toolInstalled, calls, file_obj, filename,
                   src, analyzer, issues, prompt, tmpFiles>>

Next ==
    \/ \E wandbOk \in BOOLEAN, modelFileExists \in BOOLEAN, loadOk \in BOOLEAN :
          Startup(wandbOk, modelFileExists, loadOk)
    \/ \E f \in FileObjs : Validate(f)
    \/ \E run \in RunOutcomes : Analyze(run)
    \/ Build
    \/ \E llm \in LlmOutcomes, logRaises \in BOOLEAN : Generate(llm, logRaises)

Spec == Init /\ [][Next]_vars

TypeOK ==
    /\ proc \in {"starting", "serving", "exited"}
    /\ pc \in {"idle", "analyze", "build", "generate", "returned", "raised", "exit"}
    /\ calls \in 0..MaxCalls
    /\ Len(llmCalls) <= 1

(* ------------------------------ claims --------------------------------- *)

\* the pair process_file returned in the current call
Returned == pc = "returned" /\ result # None

\* the <error> elements of a report that have a location, in report order
Located(errors) == SelectSeq(errors, LAMBDA e : Len(e.locations) > 0)

\* the pieces of a joined text between the "\n" separators
RECURSIVE SplitLines(_)
SplitLines(text) ==
    IF \A i \in 1..Len(text) : text[i] # "\n" THEN <<text>>
    ELSE LET k == CHOOSE i \in 1..Len(text) :
                     text[i] = "\n" /\ \A j \in 1..(i - 1) : text[j] # "\n"
         IN  <<SubSeq(text, 1, k - 1)>> \o SplitLines(SubSeq(text, k + 1, Len(text)))

\* the analyzer process ran and its report did not parse
ParseFailed ==
    /\ analyzer # None
    /\ analyzer[1].run.exc = None
    /\ ~analyzer[1].run.xml.wellformed

\* the analyzer did not produce parseable output: it could not be launched,
\* or its report did not parse
AnalyzerFailed ==
    /\ analyzer # None
    /\ (analyzer[1].run.exc # None \/ ~analyzer[1].run.xml.wellformed)

\* C1: whenever process_file has returned, its patch is not None only if its
\* status is "Patch generated below:"; every other return has patch = None.
C1_PatchOnlyOnSuccess ==
    Returned => (result[2] # None => result[1] = "Patch generated below:")

C1_Witness ==
    /\ Returned
    /\ result[2] # None
    /\ result[1] = "Patch generated below:"
    /\ calls = 2

\* C2: after run_cppcheck has returned or raised, none of the temporary
\* files it created exists, so no temporary file is left after any call.
C2_NoTempFileLeft ==
    pc \in {"build", "generate", "returned", "raised"} => tmpFiles = {}

\* C3: when the analyzer does not produce parseable output (malformed
\* report, or the launch of the process fails), run_cppcheck does not raise:
\* it returns a list of findings and process_file goes on to build_prompt.
C3_AnalyzerFailureDoesNotRaise ==
    AnalyzerFailed => /\ pc \in {"build", "generate", "returned"}
                      /\ issues # None
                      /\ fault = None

\* C4: once the process serves requests, no process_file call ends it.
C4_NoExitWhileServing ==
    calls > 0 => proc = "serving" /\ pc # "exit"

\* C5: when predict_patch raises (in the llm call, in the extraction of the
\* text, or in wandb.log), process_file returns the inference failure status
\* with patch = None and no exception leaves it.
C5_ModelFailureReturnsStatus ==
    (inference # None /\ inference[1].exc # None) =>
        /\ Returned
        /\ fault = None
        /\ result = <<"An error occurred during local model inference: "
                        \o inference[1].exc[1].msg, None>>

C5_Witness ==
    /\ Returned
    /\ inference # None
    /\ inference[1].exc # None
    /\ inference[1].exc[1].cls = "IndexError"

\* C6: when run_cppcheck returned no finding, process_file returns
\* ("No MISRA violations found.", None) and the model is never invoked.
C6_NoFindingsNoModel ==
    (issues # None /\ issues[1] = <<>>) =>
        /\ llmCalls = <<>>
        /\ inference = None
        /\ \/ pc = "build" /\ result = None
           \/ Returned /\ result = <<"No MISRA violations found.", None>>

C6_Witness ==
    /\ Returned
    /\ issues = Some(<<>>)
    /\ analyzer[1].run.xml.wellformed
    /\ analyzer[1].run.xml.errors # <<>>

\* C7: when no file was supplied or the content read is empty, process_file
\* returns an input-error status with patch = None, and neither the
\* analyzer nor the model is invoked.
C7_InputRejected ==
    (calls > 0 /\ (file_obj = None \/ src = Some(""))) =>
        /\ Returned
        /\ result[2] = None
        /\ result[1] = IF file_obj = None
                       THEN "Error: No file uploaded."
                       ELSE "Error: The uploaded file appears to be empty."
        /\ trace = <<>>
        /\ analyzer = None
        /\ issues = None
        /\ llmCalls = <<>>

C7_Witness ==
    /\ Returned
    /\ src = Some("")
    /\ file_obj # None
    /\ trace = <<>>

\* C8: the steps of one run are a prefix of analyze, build, generate; the
\* model is invoked at most once, only after run_cppcheck returned findings
\* and build_prompt returned a prompt, and with the prompt made of that
\* run's source and findings.
C8_StepOrder ==
    /\ \E n \in 0..3 : trace = SubSeq(<<"analyze", "build", "generate">>, 1, n)
    /\ Len(llmCalls) <= 1
    /\ (llmCalls # <<>>) <=> (Len(trace) = 3)
    /\ llmCalls # <<>> =>
          /\ issues # None /\ issues[1] # <<>>
          /\ prompt # None
          /\ llmCalls[1] = prompt[1]
          /\ llmCalls[1].source_code = src[1]
          /\ llmCalls[1].summary = Summary(issues[1])

C8_Witness ==
    /\ Returned
    /\ trace = <<"analyze", "build", "generate">>
    /\ Len(llmCalls) = 1
    /\ Len(issues[1]) = 2

\* C9: the summary of the prompt has exactly one entry for each error
\* element of the report that has a location, in the order of the report.
C9_SummaryEntries ==
    prompt # None =>
        LET located == Located(analyzer[1].run.xml.errors)
            entries == SplitLines(prompt[1].summary)
        IN  /\ Len(entries) = Len(located)
            /\ \A i \in 1..Len(located) :
                  entries[i] = <<SummaryLine(Issue(located[i], located[i].locations[1]))>>

C9_Witness ==
    /\ prompt # None
    /\ Len(analyzer[1].run.xml.errors) = 2
    /\ Len(Located(analyzer[1].run.xml.errors)) = 1
    /\ Len(SplitLines(prompt[1].summary)) = 1

\* C10: when the report does not parse, the list of findings is empty
\* whatever the report holds, and process_file returns
\* ("No MISRA violations found.", None) without invoking the model.
C10_ParseFailureLooksClean ==
    ParseFailed =>
        /\ issues = Some(<<>>)
        /\ llmCalls = <<>>
        /\ \/ pc = "build" /\ result = None
           \/ Returned /\ result = <<"No MISRA violations found.", None>>

C10_Witness ==
    /\ ParseFailed
    /\ Returned
    /\ Located(analyzer[1].run.xml.errors) # <<>>

====
